---- MODULE Spec2Model ----
(***************************************************************************)
(* omnidict: key/value repositories (src/src/omnidict/repositories.py) and *)
(* the memoizing decorator built on them (src/src/omnidict/caching.py).    *)
(*                                                                         *)
(* Strings are sequences of tokens, so that prefixing, digesting and the   *)
(* key layout of the decorator are computed, not assumed.  Python values   *)
(* are tags: "s1" is the str '1', "i1" the int 1, "t1" the tuple (1,),     *)
(* "l1" the list [1], "None" is None, "D" is what a user default returns.  *)
(***************************************************************************)
EXTENDS Integers, Sequences, FiniteSets, TLC

VARIABLES
    adapter,         \* which KeyValueRepository subclass was constructed
    prefix_opt,      \* the prefix= argument given to the constructor
    prefix,          \* self.prefix
    expire_seconds,  \* self.expire_seconds
    is_encrypted,    \* self._is_encrypted
    cipher,          \* self.cipher, named by the seed its key was drawn from
    has_default,     \* self._has_default
    default,         \* self.default: "user" (the callable given) or "none" (lambda _: None)
    storage,         \* self.storage: namespaced key -> stored bytes
    expire_storage,  \* self.expire_storage (for Redis: the service's TTL table)
    now,             \* the clock read by _now()
    res,             \* what the last operation was and how it ended
    entry,           \* history: per raw key, the value of the last successful set
                     \* that no delete followed (val), when that set was (since),
                     \* and when a set or get of the key last succeeded (at)
    fn,              \* the function handed to the decorator / to key_from_function_call
    encoded,         \* the calls key_from_function_call was applied to, with their keys
    validate,        \* Cache.validate: which results may be cached
    call,            \* the last call of the decorated function: what the repository
                     \* held for its arguments when it was made, and how it ended
    shelf            \* an EncryptShelf: its seed, dict, cache and writeback

vars == <<adapter, prefix_opt, prefix, expire_seconds, is_encrypted, cipher,
          has_default, default, storage, expire_storage, now, res, entry,
          fn, encoded, validate, call, shelf>>

codec_vars == <<fn, encoded>>
cache_vars == <<validate, call>>
shelf_vars == <<shelf>>

config == <<adapter, prefix_opt, prefix, expire_seconds, is_encrypted, cipher,
            has_default>>

----------------------------------------------------------------------------
(* Bounds and input sets *)

MaxTime == 4        \* the clock runs from 0 to MaxTime
MaxExpire == 2      \* the positive expire_seconds tried

Adapters == {"Dict", "Directory", "DbFilename", "Redis", "Default"}
Keys == {<<"a">>}                      \* the raw key the caller works on
Values == {"s1", "t1"}                 \* values the caller stores
Prefixes == {<<>>, <<"p:">>}           \* prefix= arguments
Passphrases == {"", "P1"}              \* '' means not encrypted
ExpireChoices == 0..MaxExpire          \* expire_seconds= arguments (0: no TTL)

None == "None"
UserDefault == "D"

MaxArgs == 3        \* positional arguments tried in a call
MaxCalls == 2       \* calls whose keys are compared
ArgValues == {"i0", "i1"}              \* argument values: the ints 0 and 1
DefaultArg == "i0"                     \* the default of every defaulted parameter

----------------------------------------------------------------------------
(* Finite maps *)

Put(f, k, v) == [x \in (DOMAIN f) \cup {k} |-> IF x = k THEN v ELSE f[x]]
Drop(f, k) == [x \in (DOMAIN f) \ {k} |-> f[x]]
EmptyMap == [x \in {} |-> None]

----------------------------------------------------------------------------
(* Values, bytes, serialization, encryption *)

\* A piece of data travelling between the wrappers and the backends: either
\* bytes (serialized in fmt, encrypted under enc, '' when plain) or a plain
\* Python object.
Bytes(fmt, v, enc) == [kind |-> "bytes", fmt |-> fmt, val |-> v, enc |-> enc]
Obj(v) == [kind |-> "obj", fmt |-> "", val |-> v, enc |-> ""]

\* json.dumps writes a tuple as an array, which json.loads reads as a list
json_form(v) == IF v = "t1" THEN "l1" ELSE v

\* Dict and DbFilename inherit the JSON pair of KeyValueRepository; Redis,
\* Directory and Default define a pickle pair
serialize_val(ad, v) ==
    IF ad \in {"Dict", "DbFilename"} THEN Bytes("json", json_form(v), "")
    ELSE Bytes("pickle", v, "")

\* pickle.loads / json.loads(val.decode()) of something that is not bytes
\* raises TypeError (AttributeError for the json one: the same outcome class)
unserialize_val(ad, b) ==
    IF b.kind # "bytes" \/ b.enc # "" THEN [out |-> "TypeError", val |-> None]
    ELSE [out |-> "ok", val |-> b.val]

\* random.seed(passphrase): a str is encoded to bytes before it is hashed,
\* so 'P1' and b'P1' put the generator in the same state
seed(passphrase) == IF passphrase = "b'P1'" THEN "P1" ELSE passphrase

\* Fernet(key=b64encode(random.randbytes(32))): the cipher is its key, named
\* by the generator state the 32 bytes were drawn from
build_cipher(passphrase) == seed(passphrase)

encrypt(c, b) == [b EXCEPT !.enc = c]

decrypt(c, b) ==
    IF b.kind # "bytes" THEN [out |-> "TypeError", raw |-> b]
    ELSE IF b.enc # c THEN [out |-> "InvalidToken", raw |-> b]
    ELSE [out |-> "ok", raw |-> [b EXCEPT !.enc = ""]]

default_of(d, key) == IF d = "user" THEN UserDefault ELSE None

\* the digest of DirectoryRepository.customize_key
md5(key) == <<"md5">> \o key

customize_key(key) ==
    IF adapter = "Directory" THEN prefix \o md5(key) ELSE prefix \o key

\* self.prefix after construction: only the constructors that hand prefix on
\* to KeyValueRepository.__init__ set it
init_prefix(ad, p) == IF ad \in {"Redis", "Default"} THEN p ELSE <<>>

----------------------------------------------------------------------------
(* The backends' own __getitem__ / __setitem__ / __delitem__ (the methods   *)
(* as written in each class, before __init_subclass__ wraps them).  Each    *)
(* takes the storage st, the expiry table ex, the current default callable  *)
(* d and the key it was handed, and returns the outcome with the storage    *)
(* and expiry table it leaves behind.                                       *)

Raise(e, st, ex) == [out |-> e, raw |-> Obj(None), st |-> st, ex |-> ex]
Return(raw, st, ex) == [out |-> "ok", raw |-> raw, st |-> st, ex |-> ex]

\* ---- DictRepository

\* (mutation) an _expire that has no test of expire_seconds
Dict_expire_always(ex, key) == Put(ex, key, now + expire_seconds)

Dict_expire(ex, key) ==
    IF expire_seconds <= 0 THEN ex ELSE Put(ex, key, now + expire_seconds)

\* (mutation) a delete that does not mind a missing key
Dict_delitem_silent(st, ex, key) ==
    Return(Obj(None), Drop(st, key), Drop(ex, key))

Dict_delitem(st, ex, key) ==
    IF key \notin DOMAIN st THEN Raise("KeyError", st, ex)
    ELSE Return(Obj(None), Drop(st, key), Drop(ex, key))

\* (mutation) the presence test left out: the write overwrites
Dict_setitem_overwrite(st, ex, key, value) ==
    Return(Obj(None), Put(st, key, value), Dict_expire(ex, key))

Dict_setitem(st, ex, key, value) ==
    IF key \in DOMAIN st THEN Raise("KeyError", st, ex)
    ELSE Return(Obj(None), Put(st, key, value), Dict_expire(ex, key))

\* ---- DbFilenameRepository

DbFilename_expire(ex, key) ==
    IF expire_seconds <= 0 THEN ex ELSE Put(ex, key, now + expire_seconds)

DbFilename_delitem(st, ex, key) ==
    IF key \notin DOMAIN st THEN Raise("KeyError", st, ex)
    ELSE Return(Obj(None), Drop(st, key), Drop(ex, key))

DbFilename_setitem(st, ex, key, value) ==
    IF key \in DOMAIN st THEN Raise("KeyError", st, ex)
    ELSE Return(Obj(None), Put(st, key, value), DbFilename_expire(ex, key))

\* ---- DirectoryRepository (st: the files of the directory, by key)

Directory_expire(ex, key) ==
    IF expire_seconds <= 0 THEN ex ELSE Put(ex, key, now + expire_seconds)

\* unlinks the file; the expiry record stays
Directory_delitem(st, ex, key) ==
    IF key \notin DOMAIN st THEN Raise("KeyError", st, ex)
    ELSE Return(Obj(None), Drop(st, key), ex)

Directory_setitem(st, ex, key, value) ==
    IF key \in DOMAIN st THEN Raise("KeyError", st, ex)
    ELSE Return(Obj(None), Put(st, key, value), Directory_expire(ex, key))

\* ---- RedisRepository (st, ex: the service's keys and their TTL deadlines)

\* the service forgets a key once its deadline has passed
redis_alive(st, ex, key) ==
    key \in DOMAIN st /\ ~(key \in DOMAIN ex /\ ex[key] < now)

redis_live_keys(st, ex) == {k \in DOMAIN st : redis_alive(st, ex, k)}

redis_st(st, ex) == [k \in redis_live_keys(st, ex) |-> st[k]]
redis_ex(st, ex) == [k \in redis_live_keys(st, ex) \cap DOMAIN ex |-> ex[k]]

\* self.storage.expire(key, time=self.expire_seconds)
Redis_expire(ex, key) ==
    IF expire_seconds <= 0 THEN ex ELSE Put(ex, key, now + expire_seconds)

Redis_getitem(st0, ex0, d, key) ==
    LET st == redis_st(st0, ex0)
        ex == redis_ex(st0, ex0)
    IN  IF key \notin DOMAIN st THEN Raise("KeyError", st, ex)
        ELSE Return(st[key], st, Redis_expire(ex, key))

Redis_delitem(st0, ex0, key) ==
    LET st == redis_st(st0, ex0)
        ex == redis_ex(st0, ex0)
    IN  IF key \notin DOMAIN st THEN Raise("KeyError", st, ex)
        ELSE Return(Obj(None), Drop(st, key), Drop(ex, key))

\* "if self.storage.get(key) is not self.default(key): raise": storage.get
\* gives None for a missing key and bytes otherwise, so the test lets the
\* write through only when the key is missing and default(key) is None
Redis_setitem(st0, ex0, d, key, value) ==
    LET st == redis_st(st0, ex0)
        ex == redis_ex(st0, ex0)
        got == IF key \in DOMAIN st THEN "bytes" ELSE None
    IN  IF got # default_of(d, key) THEN Raise("KeyError", st, ex)
        ELSE Return(Obj(None), Put(st, key, value), Redis_expire(Drop(ex, key), key))

\* ---- DefaultRepository.__delitem__ / __setitem__

\* self.storage.pop(key, None)
Default_delitem(st, ex, key) == Return(Obj(None), Drop(st, key), ex)

Default_setitem(st, ex, key, value) ==
    IF key \in DOMAIN st THEN Raise("KeyError", st, ex)
    ELSE Return(Obj(None), Put(st, key, value), ex)

----------------------------------------------------------------------------
(* KeyValueRepository.__init_subclass__: what repo[k], repo[k] = v and     *)
(* del repo[k] run on every subclass.  The wrappers are the class's        *)
(* methods, so a "self[key]" or "del self[key]" written inside a backend   *)
(* method goes through them again.                                         *)

Outcome(e, v, st, ex) == [out |-> e, val |-> v, st |-> st, ex |-> ex]

orig_delitem(st, ex, key) ==
    CASE adapter = "Dict" -> Dict_delitem(st, ex, key)
      [] adapter = "DbFilename" -> DbFilename_delitem(st, ex, key)
      [] adapter = "Directory" -> Directory_delitem(st, ex, key)
      [] adapter = "Redis" -> Redis_delitem(st, ex, key)
      [] adapter = "Default" -> Default_delitem(st, ex, key)

wrapped_delitem(st, ex, key) ==
    LET r == orig_delitem(st, ex, customize_key(key))
    IN  Outcome(r.out, None, r.st, r.ex)

orig_setitem(st, ex, d, key, value) ==
    CASE adapter = "Dict" -> Dict_setitem(st, ex, key, value)
      [] adapter = "DbFilename" -> DbFilename_setitem(st, ex, key, value)
      [] adapter = "Directory" -> Directory_setitem(st, ex, key, value)
      [] adapter = "Redis" -> Redis_setitem(st, ex, d, key, value)
      [] adapter = "Default" -> Default_setitem(st, ex, key, value)

wrapped_setitem(st, ex, d, key, value) ==
    LET data == IF ~is_encrypted THEN serialize_val(adapter, value)
                ELSE encrypt(cipher, serialize_val(adapter, value))
        r == orig_setitem(st, ex, d, customize_key(key), data)
    IN  Outcome(r.out, None, r.st, r.ex)

\* the part of the wrapped __getitem__ that follows the backend's return:
\* decrypt when encrypted, then unserialize_val
unwrap(r) ==
    LET dec == IF ~is_encrypted THEN [out |-> "ok", raw |-> r.raw]
               ELSE decrypt(cipher, r.raw)
        u == unserialize_val(adapter, dec.raw)
    IN  IF r.out # "ok" THEN Outcome(r.out, None, r.st, r.ex)
        ELSE IF dec.out # "ok" THEN Outcome(dec.out, None, r.st, r.ex)
        ELSE Outcome(u.out, u.val, r.st, r.ex)

\* ---- the __getitem__ of each backend

\* an expired entry is removed with "del self[key]": the wrapped delete, on
\* the key this method was handed; whether that delete finds the key or
\* raises KeyError itself, a KeyError leaves the method
\* (mutation) a read that does not renew the expiry
Dict_getitem_norefresh(st, ex, key) ==
    IF key \notin DOMAIN st THEN Raise("KeyError", st, ex)
    ELSE IF expire_seconds > 0 /\ key \in DOMAIN ex /\ ex[key] < now
    THEN LET del == wrapped_delitem(st, ex, key)
         IN  Raise("KeyError", del.st, del.ex)
    ELSE Return(st[key], st, ex)

\* (mutation) a read that never looks at the expiry
Dict_getitem_noexpiry(st, ex, key) ==
    IF key \notin DOMAIN st THEN Raise("KeyError", st, ex)
    ELSE Return(st[key], st, Dict_expire(ex, key))

Dict_getitem(st, ex, key) ==
    IF key \notin DOMAIN st THEN Raise("KeyError", st, ex)
    ELSE IF expire_seconds > 0 /\ key \in DOMAIN ex /\ ex[key] < now
    THEN LET del == wrapped_delitem(st, ex, key)
         IN  Raise("KeyError", del.st, del.ex)
    ELSE Return(st[key], st, Dict_expire(ex, key))

DbFilename_getitem(st, ex, key) ==
    IF key \notin DOMAIN st THEN Raise("KeyError", st, ex)
    ELSE IF expire_seconds > 0 /\ key \in DOMAIN ex /\ ex[key] < now
    THEN LET del == wrapped_delitem(st, ex, key)
         IN  Raise("KeyError", del.st, del.ex)
    ELSE Return(st[key], st, DbFilename_expire(ex, key))

Directory_getitem(st, ex, key) ==
    IF key \notin DOMAIN st THEN Raise("KeyError", st, ex)
    ELSE IF expire_seconds > 0 /\ key \in DOMAIN ex /\ ex[key] < now
    THEN LET del == wrapped_delitem(st, ex, key)
         IN  Raise("KeyError", del.st, del.ex)
    ELSE Return(st[key], st, Directory_expire(ex, key))

\* a missing key is written with "self[key] = self.default(key)" and read
\* back with "return self[key]", both through the wrappers: the write lands
\* on customize_key(key), and the read finds it there (it was just written)
\* and returns it unwrapped
Default_getitem(st, ex, d, key) ==
    IF key \in DOMAIN st THEN Return(st[key], st, ex)
    ELSE LET w == wrapped_setitem(st, ex, d, key, default_of(d, key))
             g == unwrap(Return(w.st[customize_key(key)], w.st, w.ex))
         IN  IF w.out # "ok" THEN Raise(w.out, w.st, w.ex)
             ELSE IF g.out # "ok" THEN Raise(g.out, g.st, g.ex)
             ELSE Return(Obj(g.val), g.st, g.ex)

orig_getitem(st, ex, d, key) ==
    CASE adapter = "Dict" -> Dict_getitem(st, ex, key)
      [] adapter = "DbFilename" -> DbFilename_getitem(st, ex, key)
      [] adapter = "Directory" -> Directory_getitem(st, ex, key)
      [] adapter = "Redis" -> Redis_getitem(st, ex, d, key)
      [] adapter = "Default" -> Default_getitem(st, ex, d, key)

wrapped_getitem(st, ex, d, key) == unwrap(orig_getitem(st, ex, d, customize_key(key)))

----------------------------------------------------------------------------
(* KeyValueRepository.delete / get / set *)

Repo_delete(st, ex, key) ==
    LET r == wrapped_delitem(st, ex, key)
    IN  Outcome("ok", None, r.st, r.ex)

\* (mutation) a get that lets the KeyError through
Repo_get_nocatch(st, ex, d, key) == wrapped_getitem(st, ex, d, key)

Repo_get(st, ex, d, key) ==
    LET r == wrapped_getitem(st, ex, d, key)
    IN  IF r.out = "KeyError" THEN Outcome("ok", default_of(d, key), r.st, r.ex)
        ELSE r

Repo_set(st, ex, d, key, value) ==
    LET del == Repo_delete(st, ex, key)
    IN  wrapped_setitem(del.st, del.ex, d, key, value)

----------------------------------------------------------------------------
(* caching.Cache: the key of a function call.                              *)
(* A function is described by what all_as_kwargs reads of its code object  *)
(* (co_posonlyargcount, co_argcount, co_kwonlyargcount, co_varnames) and   *)
(* by which parameters have defaults.  A call is a sequence of positional  *)
(* arguments and a map of keyword arguments.                               *)

fun_sep == ":?:"
type_sep == ":&:"
param_sep == ":::"

\* str(v)
str_of(v) ==
    CASE v = "i0" -> <<"0">>
      [] v = "i1" -> <<"1">>
      [] v = "s1" -> <<"1">>
      [] v = "" -> <<>>
      [] v = "x:::y" -> <<"x", param_sep, "y">>
      [] OTHER -> <<v>>

\* sep.join(parts)
RECURSIVE join(_, _)
join(parts, sep) ==
    IF Len(parts) = 0 THEN <<>>
    ELSE IF Len(parts) = 1 THEN parts[1]
    ELSE parts[1] \o <<sep>> \o join(Tail(parts), sep)

Reverse(q) == [i \in 1..Len(q) |-> q[Len(q) + 1 - i]]

nargs_of(f) == f.co_argcount + f.co_kwonlyargcount

\* the loop of all_as_kwargs from the i-th name of the reversed parameter
\* list on; in_kwargs is the dict being filled, in insertion order
RECURSIVE all_as_kwargs_loop(_, _, _, _, _)
all_as_kwargs_loop(f, i, in_args, in_kwargs, kwargs) ==
    LET varnames == Reverse(SubSeq(f.co_varnames, 1, nargs_of(f)))
    IN  IF i > Len(varnames) THEN [in_args |-> in_args, in_kwargs |-> in_kwargs]
        ELSE LET varname == varnames[i]
             IN  IF varname \in DOMAIN kwargs
                 THEN all_as_kwargs_loop(f, i + 1, in_args,
                         Append(in_kwargs, <<varname, kwargs[varname]>>), kwargs)
                 ELSE IF nargs_of(f) - Len(in_kwargs) = f.co_posonlyargcount
                 THEN [in_args |-> in_args, in_kwargs |-> in_kwargs]
                 ELSE IF Len(in_args) > 0
                 THEN all_as_kwargs_loop(f, i + 1,
                         SubSeq(in_args, 1, Len(in_args) - 1),
                         Append(in_kwargs, <<varname, in_args[Len(in_args)]>>), kwargs)
                 ELSE all_as_kwargs_loop(f, i + 1, in_args, in_kwargs, kwargs)

all_as_kwargs(f, args, kwargs) == all_as_kwargs_loop(f, 1, args, <<>>, kwargs)

key_from_function_call(f, args, kwargs) ==
    LET r == all_as_kwargs(f, args, kwargs)
        argstr == join([i \in 1..Len(r.in_args) |-> str_of(r.in_args[i])], param_sep)
        kwargstr == join([i \in 1..Len(r.in_kwargs) |->
                            <<r.in_kwargs[i][1], "=">> \o str_of(r.in_kwargs[i][2])],
                         param_sep)
    IN  f.qualname \o <<fun_sep>> \o argstr \o <<type_sep>> \o kwargstr

\* ---- the functions and calls tried

Function(name, npos, argcount, kwonly, varnames, defaults) ==
    [qualname |-> <<name>>, co_posonlyargcount |-> npos, co_argcount |-> argcount,
     co_kwonlyargcount |-> kwonly, co_varnames |-> varnames, defaults |-> defaults]

NoFunction == Function("", 0, 0, 0, <<>>, {})

\* def m(a, /, b, *, c)     (the shape of the tests' functions)
\* def g(a, b=0)
\* def k(a, /, b=0, *, c=0)
Functions ==
    { Function("mod.m", 1, 2, 1, <<"a", "b", "c">>, {}),
      Function("mod.g", 0, 2, 0, <<"a", "b">>, {"b"}),
      Function("mod.k", 1, 2, 1, <<"a", "b", "c">>, {"b", "c"}) }

Params(f) == {f.co_varnames[i] : i \in 1..nargs_of(f)}
IndexOf(f, n) == CHOOSE i \in 1..nargs_of(f) : f.co_varnames[i] = n

ArgLists == UNION {[1..n -> ArgValues] : n \in 0..MaxArgs}
KwArgMaps(f) == UNION {[S -> ArgValues] : S \in SUBSET Params(f)}

\* Python accepts the call f(*args, **kwargs)
ValidCall(f, args, kwargs) ==
    /\ Len(args) <= f.co_argcount
    /\ \A n \in DOMAIN kwargs :
          IndexOf(f, n) > f.co_posonlyargcount /\ IndexOf(f, n) > Len(args)
    /\ \A n \in Params(f) :
          n \in f.defaults \/ IndexOf(f, n) <= Len(args) \/ n \in DOMAIN kwargs

\* the value each parameter of f has in the body for that call
Bind(f, args, kwargs) ==
    [n \in Params(f) |->
        IF IndexOf(f, n) <= Len(args) THEN args[IndexOf(f, n)]
        ELSE IF n \in DOMAIN kwargs THEN kwargs[n]
        ELSE DefaultArg]

----------------------------------------------------------------------------
(* caching.Cache.__call__: the decorated function *)

\* result_validator: lambda _: True (the default), lambda _: False,
\* lambda r: r is not None
Validators == {"always", "never", "not_none"}
Results == {"r1", None}                       \* what the body may return

Accepts(vd, result) ==
    CASE vd = "always" -> TRUE
      [] vd = "never" -> FALSE
      [] vd = "not_none" -> result # None

Ended(e, v, executed, key, st, ex, d) ==
    [out |-> e, val |-> v, executed |-> executed, key |-> key,
     st |-> st, ex |-> ex, d |-> d]

\* repository.set(cache_key, result) done (put is how it ended): a set that
\* raises leaves inner_func by that exception, otherwise result is returned
after_set(put, d, cache_key, body) ==
    IF put.out # "ok"
    THEN Ended(put.out, None, TRUE, cache_key, put.st, put.ex, d)
    ELSE Ended("ok", body, TRUE, cache_key, put.st, put.ex, d)

\* result = func(*args, **kwargs); if self.validate(result): repository.set(...)
recompute(st, ex, d, cache_key, body) ==
    IF ~Accepts(validate, body)
    THEN Ended("ok", body, TRUE, cache_key, st, ex, d)
    ELSE after_set(Repo_set(st, ex, d, cache_key, body), d, cache_key, body)

\* the lookup done (got is how repository.get ended): an exception of the get
\* leaves inner_func with the default still replaced; a result that is not
\* None is returned; otherwise the function is called
after_get(got, d, d_raised, cache_key, body) ==
    IF got.out # "ok"
    THEN Ended(got.out, None, FALSE, cache_key, got.st, got.ex, d_raised)
    ELSE IF got.val # None
    THEN Ended("ok", got.val, FALSE, cache_key, got.st, got.ex, d)
    ELSE recompute(got.st, got.ex, d, cache_key, body)

\* ignore_cache: no lookup is made
no_lookup(st, ex) == [out |-> "ok", val |-> None, st |-> st, ex |-> ex]

\* inner_func(*args, ignore_cache=..., **kwargs) once cache_key is built, the
\* body returning "body" when it runs.  The lookup is made with
\* self.repository.default replaced by lambda _: None; the old default is put
\* back after the get returns (not when it raises).
inner_func(st, ex, d, cache_key, ignore_cache, body) ==
    after_get(IF ignore_cache THEN no_lookup(st, ex)
              ELSE Repo_get(st, ex, "none", cache_key),
              d, "none", cache_key, body)

----------------------------------------------------------------------------
(* The repository as a state machine: one caller, one operation per step *)

NoEntry == [val |-> None, at |-> 0 - 1, since |-> 0 - 1]

\* res: the operation, its key and argument, how it ended (out, val), whether
\* the backend read under it found the entry (hit), and a bit that flips with
\* every operation so that no operation is a stuttering step
Result(op, key, arg, r, hit) ==
    [op |-> op, key |-> key, arg |-> arg, out |-> r.out, val |-> r.val,
     hit |-> hit, seq |-> 1 - res.seq]

NoCall ==
    [op |-> "init", ignore |-> FALSE, key |-> <<>>, bound |-> <<>>, prev |-> {},
     executed |-> FALSE, out |-> "ok", val |-> None]

NoCache ==
    /\ validate = "always"
    /\ call = NoCall

\* no EncryptShelf was made
NoShelf == [seed |-> None, dict |-> EmptyMap, cache |-> EmptyMap, writeback |-> FALSE]

Construct(ad, p, e, pass, dflt) ==
    /\ adapter = ad
    /\ prefix_opt = p
    /\ prefix = init_prefix(ad, p)
    /\ expire_seconds = e
    /\ is_encrypted = (pass # "")
    /\ cipher = build_cipher(pass)
    /\ has_default = dflt
    /\ default = IF dflt THEN "user" ELSE "none"
    /\ storage = EmptyMap
    /\ expire_storage = EmptyMap

Init ==
    /\ \E ad \in Adapters, p \in Prefixes :
          IF ad = "Default"
          THEN Construct(ad, p, 0, "", TRUE)
          ELSE \E e \in ExpireChoices, pass \in Passphrases, dflt \in BOOLEAN :
                  Construct(ad, p, e, pass, dflt)
    /\ now = 0
    /\ res = [op |-> "init", key |-> <<>>, arg |-> None, out |-> "ok", val |-> None,
              hit |-> FALSE, seq |-> 0]
    /\ entry = [k \in Keys |-> NoEntry]
    /\ fn = NoFunction
    /\ encoded = <<>>
    /\ NoCache
    /\ shelf = NoShelf

Apply(r) ==
    /\ storage' = r.st
    /\ expire_storage' = r.ex
    /\ UNCHANGED <<config, default, now, codec_vars, cache_vars, shelf_vars>>

\* repo[k]
GetItem(k) ==
    LET r == wrapped_getitem(storage, expire_storage, default, k)
    IN  /\ Apply(r)
        /\ res' = Result("getitem", k, None, r, r.out = "ok")
        /\ entry' = IF r.out = "ok" THEN [entry EXCEPT ![k].at = now] ELSE entry

\* repo.get(k)
Get(k) ==
    LET r == Repo_get(storage, expire_storage, default, k)
        hit == wrapped_getitem(storage, expire_storage, default, k).out = "ok"
    IN  /\ Apply(r)
        /\ res' = Result("get", k, None, r, hit)
        /\ entry' = IF hit THEN [entry EXCEPT ![k].at = now] ELSE entry

\* repo[k] = v
SetItem(k, v) ==
    LET r == wrapped_setitem(storage, expire_storage, default, k, v)
    IN  /\ Apply(r)
        /\ res' = Result("setitem", k, v, r, FALSE)
        /\ entry' = IF r.out = "ok" THEN [entry EXCEPT ![k] = [val |-> v, at |-> now, since |-> now]]
                    ELSE entry

\* repo.set(k, v)
Set(k, v) ==
    LET r == Repo_set(storage, expire_storage, default, k, v)
    IN  /\ Apply(r)
        /\ res' = Result("set", k, v, r, FALSE)
        /\ entry' = IF r.out = "ok" THEN [entry EXCEPT ![k] = [val |-> v, at |-> now, since |-> now]]
                    ELSE [entry EXCEPT ![k] = NoEntry]

\* del repo[k]
DelItem(k) ==
    LET r == wrapped_delitem(storage, expire_storage, k)
    IN  /\ Apply(r)
        /\ res' = Result("delitem", k, None, r, FALSE)
        /\ entry' = IF r.out = "ok" THEN [entry EXCEPT ![k] = NoEntry] ELSE entry

\* repo.delete(k)
Delete(k) ==
    LET r == Repo_delete(storage, expire_storage, k)
    IN  /\ Apply(r)
        /\ res' = Result("delete", k, None, r, FALSE)
        /\ entry' = [entry EXCEPT ![k] = NoEntry]

\* a second passes
Tick ==
    /\ now < MaxTime
    /\ now' = now + 1
    /\ res' = [op |-> "tick", key |-> <<>>, arg |-> None, out |-> "ok", val |-> None,
               hit |-> FALSE, seq |-> 1 - res.seq]
    /\ UNCHANGED <<config, default, storage, expire_storage, entry, codec_vars, cache_vars, shelf_vars>>

Next ==
    \/ \E k \in Keys : GetItem(k)
    \/ \E k \in Keys : Get(k)
    \/ \E k \in Keys, v \in Values : SetItem(k, v)
    \/ \E k \in Keys, v \in Values : Set(k, v)
    \/ \E k \in Keys : DelItem(k)
    \/ \E k \in Keys : Delete(k)
    \/ Tick

Spec == Init /\ [][Next]_vars

----------------------------------------------------------------------------
(* Vocabulary of the claims about the repository *)

\* the backend holds an entry under the namespaced key of k
Present(k) ==
    IF adapter = "Redis"
    THEN redis_alive(storage, expire_storage, customize_key(k))
    ELSE customize_key(k) \in DOMAIN storage

\* k has a live entry: a set of k succeeded and no delete of k followed
Live(k) == entry[k].val # None

\* seconds since the last successful set or get of k
Idle(k) == now - entry[k].at

\* what a read gives back for a value v that was written
read_back(v) == unserialize_val(adapter, serialize_val(adapter, v)).val

IsGetOf(r, k) == r.op \in {"getitem", "get"} /\ r.key = k

----------------------------------------------------------------------------
(* C4: on every adapter, repo[k] = w on a key the backend already holds   *)
(* fails with KeyError (AlreadyExists), and the stored bytes and the       *)
(* expiry record of k are the same after the failed set as before it.      *)
C4_SetExistingFails ==
    [][\A k \in Keys :
          (res'.op = "setitem" /\ res'.key = k /\ Present(k)) =>
             LET ck == customize_key(k)
             IN  /\ res'.out = "KeyError"
                 /\ ck \in DOMAIN storage'
                 /\ storage'[ck] = storage[ck]
                 /\ (ck \in DOMAIN expire_storage') = (ck \in DOMAIN expire_storage)
                 /\ (ck \in DOMAIN expire_storage =>
                        expire_storage'[ck] = expire_storage[ck])]_vars

\* a set of another value was refused on a live entry, after time has passed
C4_Witness ==
    /\ res.op = "setitem"
    /\ res.out = "KeyError"
    /\ Live(res.key)
    /\ Present(res.key)
    /\ res.arg # entry[res.key].val
    /\ now > entry[res.key].at

----------------------------------------------------------------------------
(* C5: sliding TTL.  With expire_seconds = E > 0, every get of k that      *)
(* finds the entry at time t leaves the expiry of k at t + E; and a get    *)
(* made less than E seconds after the last successful set or get of k      *)
(* finds the entry and returns the value stored, however long ago the      *)
(* entry was created.                                                      *)
C5_SlidingTTL ==
    [][\A k \in Keys :
          LET ck == customize_key(k)
          IN  /\ (IsGetOf(res', k) /\ res'.hit /\ expire_seconds > 0) =>
                    /\ ck \in DOMAIN expire_storage'
                    /\ expire_storage'[ck] = now + expire_seconds
              /\ (IsGetOf(res', k) /\ expire_seconds > 0 /\ Live(k)
                    /\ Idle(k) < expire_seconds) =>
                    /\ res'.hit
                    /\ res'.out = "ok"
                    /\ res'.val = read_back(entry[k].val)]_vars

\* a get found an entry that was created more than E seconds before
C5_Witness ==
    /\ IsGetOf(res, res.key)
    /\ res.hit
    /\ expire_seconds > 0
    /\ Live(res.key)
    /\ res.val = read_back(entry[res.key].val)
    /\ now - entry[res.key].since > expire_seconds
    /\ expire_storage[customize_key(res.key)] = now + expire_seconds

----------------------------------------------------------------------------
(* C6, as stated: with expire_seconds = E > 0, a get of k made E seconds   *)
(* or more (E exactly included) after the last successful set or get of k  *)
(* raises KeyError, and the convenience get returns default(k).            *)
ExpiredAnswer(r, k) ==
    /\ ~r.hit
    /\ r.op = "getitem" => r.out = "KeyError"
    /\ r.op = "get" => (r.out = "ok" /\ r.val = default_of(default, k))

C6_ExpiresAtE ==
    [][\A k \in Keys :
          (IsGetOf(res', k) /\ expire_seconds > 0 /\ Live(k)
             /\ Idle(k) >= expire_seconds) => ExpiredAnswer(res', k)]_vars

(* C6, amended: the same for a get made more than E seconds after the last *)
(* successful set or get of k; at E seconds exactly the entry is still     *)
(* served (the test is "ttl < now").                                       *)
C6_ExpiresAfterE ==
    [][\A k \in Keys :
          (IsGetOf(res', k) /\ expire_seconds > 0 /\ Live(k)
             /\ Idle(k) > expire_seconds) => ExpiredAnswer(res', k)]_vars

\* a primitive get of an entry left alone for more than E seconds raised
C6_Witness ==
    /\ res.op = "getitem"
    /\ res.out = "KeyError"
    /\ expire_seconds > 0
    /\ Live(res.key)
    /\ Idle(res.key) > expire_seconds

----------------------------------------------------------------------------
(* C2: on every adapter, plain or encrypted, repo[k] = v on a key the      *)
(* backend does not hold succeeds, and from then on, as long as k is not   *)
(* deleted and does not expire, repo[k] and repo.get(k) return v.          *)
C2_SetThenGet ==
    [][\A k \in Keys :
          /\ (res'.op = "setitem" /\ res'.key = k /\ ~Present(k)) =>
                res'.out = "ok"
          /\ (IsGetOf(res', k) /\ Live(k)
                /\ (expire_seconds = 0 \/ Idle(k) < expire_seconds)) =>
                (res'.out = "ok" /\ res'.val = entry[k].val)]_vars

----------------------------------------------------------------------------
(* C7: on every adapter and for every construction option, repo.set(k, v)  *)
(* never fails with KeyError (AlreadyExists), whether k was there before   *)
(* or not; and a repo.get(k) made right after it returns v.                *)
C7_SetOverwrites ==
    [][\A k \in Keys :
          /\ (res'.op = "set" /\ res'.key = k) => res'.out = "ok"
          /\ (res.op = "set" /\ res.key = k /\ res'.op = "get" /\ res'.key = k) =>
                (res'.out = "ok" /\ res'.val = res.arg)]_vars

----------------------------------------------------------------------------
(* key_from_function_call applied to the valid calls of one function *)

\* the repository Cache() builds for itself: DictRepository()
InitCodec ==
    /\ Construct("Dict", <<>>, 0, "", FALSE)
    /\ now = 0
    /\ res = [op |-> "init", key |-> <<>>, arg |-> None, out |-> "ok", val |-> None,
              hit |-> FALSE, seq |-> 0]
    /\ entry = [k \in Keys |-> NoEntry]
    /\ fn \in Functions
    /\ encoded = <<>>
    /\ NoCache
    /\ shelf = NoShelf

Encode(args, kwargs) ==
    /\ Len(encoded) < MaxCalls
    /\ ValidCall(fn, args, kwargs)
    /\ encoded' = Append(encoded, [args |-> args, kwargs |-> kwargs,
                                   key |-> key_from_function_call(fn, args, kwargs)])
    /\ UNCHANGED <<config, default, storage, expire_storage, now, res, entry, fn, cache_vars, shelf_vars>>

NextCodec == \E args \in ArgLists, kwargs \in KwArgMaps(fn) : Encode(args, kwargs)

SpecCodec == InitCodec /\ [][NextCodec]_vars

----------------------------------------------------------------------------
(* C3: for every function (positional-only, positional-or-keyword and      *)
(* keyword-only parameters, with or without defaults), two valid calls     *)
(* that give every parameter the same value get the same key.              *)
C3_SameBindingSameKey ==
    \A i, j \in 1..Len(encoded) :
        Bind(fn, encoded[i].args, encoded[i].kwargs)
            = Bind(fn, encoded[j].args, encoded[j].kwargs)
        => encoded[i].key = encoded[j].key

----------------------------------------------------------------------------
(* The decorated function as a state machine: calls of one decorated       *)
(* function, by one caller, and the clock.                                 *)

CacheFunctions == {f \in Functions : f.qualname \in {<<"mod.m">>, <<"mod.g">>}}
CacheArgValues == {"i1"}
CacheArgLists == UNION {[1..n -> CacheArgValues] : n \in 0..MaxArgs}
CacheKwArgMaps(f) == UNION {[S -> CacheArgValues] : S \in SUBSET Params(f)}
\* the calls of f Python accepts, each with the key key_from_function_call
\* gives it and the values its parameters get
CacheCalls(f) ==
    {[key |-> key_from_function_call(f, c[1], c[2]), bound |-> Bind(f, c[1], c[2])] :
        c \in {x \in CacheArgLists \X CacheKwArgMaps(f) : ValidCall(f, x[1], x[2])}}

CallTable == [f \in CacheFunctions |-> CacheCalls(f)]

\* the keys of the calls of f that give its parameters the values b
KeysOf(f, b) == {c.key : c \in {x \in CallTable[f] : x.bound = b}}

\* the backend holds an entry for key that has not expired
Stored(key) ==
    LET ck == customize_key(key)
    IN  /\ ck \in DOMAIN storage
        /\ ck \in DOMAIN expire_storage => expire_storage[ck] >= now

\* the results the backend holds, unexpired, for the calls that bind to b
HeldFor(b) ==
    {storage[customize_key(k)].val : k \in {x \in KeysOf(fn, b) : Stored(x)}}

InitCache ==
    /\ \E ad \in Adapters :
          IF ad = "Default"
          THEN Construct(ad, <<>>, 0, "", TRUE)
          ELSE \E e \in {0, MaxExpire}, dflt \in BOOLEAN :
                  Construct(ad, <<>>, e, "", dflt)
    /\ now = 0
    /\ res = [op |-> "init", key |-> <<>>, arg |-> None, out |-> "ok", val |-> None,
              hit |-> FALSE, seq |-> 0]
    /\ entry = [k \in Keys |-> NoEntry]
    /\ fn \in CacheFunctions
    /\ encoded = <<>>
    /\ validate \in Validators
    /\ call = NoCall
    /\ shelf = NoShelf

\* One call of the decorated function, whole: c is the call with the
\* cache_key inner_func builds for it first; call.prev records what the
\* repository held for its arguments when it was made.
Call(c, ignore_cache, body) ==
    \E r \in {inner_func(storage, expire_storage, default, c.key, ignore_cache, body)} :
       /\ storage' = r.st
       /\ expire_storage' = r.ex
       /\ default' = r.d
       /\ call' = [op |-> "call", ignore |-> ignore_cache, key |-> c.key,
                   bound |-> c.bound, prev |-> HeldFor(c.bound),
                   executed |-> r.executed, out |-> r.out,
                   val |-> IF r.executed THEN body ELSE r.val]
       /\ UNCHANGED <<config, now, res, entry, codec_vars, validate, shelf_vars>>

\* Without an expiry nothing reads the clock (the adapters consult _now() only
\* when expire_seconds is set), so time is only followed when E > 0.
TickCache ==
    /\ expire_seconds > 0
    /\ now < MaxTime
    /\ now' = now + 1
    /\ call' = [NoCall EXCEPT !.op = "tick"]
    /\ UNCHANGED <<config, default, storage, expire_storage, res, entry,
                   codec_vars, validate, shelf_vars>>

NextCache ==
    \/ \E c \in CallTable[fn], ignore_cache \in BOOLEAN, body \in Results :
          Call(c, ignore_cache, body)
    \/ TickCache

SpecCache == InitCache /\ [][NextCache]_vars

----------------------------------------------------------------------------
\* how a call ended: it returned v from the cache / a value from the cache
Served(r, v) == ~r.executed /\ r.out = "ok" /\ r.val = v
Cached(r) == ~r.executed /\ r.out = "ok"

(* C1: with the default validator, a call made with ignore_cache false     *)
(* when the repository holds no unexpired result for its arguments (a      *)
(* first call) executes the body, ends normally and leaves its result      *)
(* stored for those arguments; made when the repository holds an unexpired *)
(* result for the same effective arguments, however they were passed, it   *)
(* returns that result and does not execute the body.                      *)
C1_FirstRunsLaterServed ==
    (call.op = "call" /\ ~call.ignore /\ validate = "always") =>
        IF call.prev = {}
        THEN call.executed /\ call.out = "ok" /\ HeldFor(call.bound) = {call.val}
        ELSE ~call.executed /\ call.out = "ok" /\ call.val \in call.prev

(* C8: a call with ignore_cache=True always executes the body; when its    *)
(* result passes the validator, every equivalent call made next with       *)
(* ignore_cache false returns that result without executing the body.      *)
C8_ForcedRunReplaces ==
    (call.op = "call" /\ call.ignore) =>
        /\ call.executed
        /\ Accepts(validate, call.val) =>
              \A k \in KeysOf(fn, call.bound), body \in Results :
                 Served(inner_func(storage, expire_storage, default, k, FALSE, body),
                        call.val)

(* C9: with a validator that rejects every result, every call executes the *)
(* body and the repository holds no entry for the key of any call.         *)
C9_RejectAllStoresNothing ==
    validate = "never" =>
        /\ call.op = "call" => call.executed
        /\ \A c \in CallTable[fn] : ~Stored(c.key)

(* C10: after the decorator has recomputed and the validator has rejected  *)
(* the result, the repository holds no entry for the key of the call, and  *)
(* a normal call made next does not return a cached value.                 *)
C10_RecomputeEvicts ==
    (call.op = "call" /\ call.executed /\ ~Accepts(validate, call.val)) =>
        /\ ~Stored(call.key)
        /\ \A body \in Results :
              ~Cached(inner_func(storage, expire_storage, default, call.key,
                                 FALSE, body))

----------------------------------------------------------------------------
(* The decorated function over a repository it does not own alone: results *)
(* for its calls are also stored by another Cache built over the same      *)
(* repository (with its own validator), as inner_func does with            *)
(* self.repository.set(cache_key, result).                                 *)

Store(c, v) ==
    \E r \in {Repo_set(storage, expire_storage, default, c.key, v)} :
       /\ storage' = r.st
       /\ expire_storage' = r.ex
       /\ call' = [NoCall EXCEPT !.op = "store", !.key = c.key, !.out = r.out]
       /\ UNCHANGED <<config, default, now, res, entry, codec_vars, validate, shelf_vars>>

NextShared ==
    \/ \E c \in CallTable[fn], ignore_cache \in BOOLEAN, body \in Results :
          Call(c, ignore_cache, body)
    \/ \E c \in CallTable[fn], v \in Results : Store(c, v)

\* the repositories without expiry: the clock plays no part here
InitShared == InitCache /\ expire_seconds = 0

SpecShared == InitShared /\ [][NextShared]_vars

(* C11: a call made with ignore_cache false returns without executing the  *)
(* body only a value the repository held for its arguments and that the    *)
(* validator accepts; when all the repository holds for its arguments is   *)
(* rejected by the validator, the body is executed.                        *)
C11_HitsPassValidator ==
    (call.op = "call" /\ ~call.ignore) =>
        /\ Cached(call) => (call.val \in call.prev /\ Accepts(validate, call.val))
        /\ (call.prev # {} /\ \A v \in call.prev : ~Accepts(validate, v)) =>
              call.executed

----------------------------------------------------------------------------
(* C12: on a DefaultRepository, for any prefix, repo[k] and repo.get(k) of *)
(* a key the backend does not hold end without an error, return            *)
(* default(k), and leave default(k) stored under the namespaced key of k.  *)
C12_DefaultComputesAndStores ==
    [][\A k \in Keys :
          (adapter = "Default" /\ IsGetOf(res', k) /\ ~Present(k)) =>
             LET ck == customize_key(k)
             IN  /\ res'.out = "ok"
                 /\ res'.val = default_of(default, k)
                 /\ ck \in DOMAIN storage'
                 /\ storage'[ck] = serialize_val(adapter, default_of(default, k))]_vars

----------------------------------------------------------------------------
\* the key the option prefix = p asks for: p + k, p + digest(k) for Directory
Namespaced(k) ==
    IF adapter = "Directory" THEN prefix_opt \o md5(k) ELSE prefix_opt \o k

(* C13: on every adapter constructed with prefix = p, customize_key(k) is  *)
(* p + k (p + digest(k) for Directory), and every entry the operations     *)
(* leave in the backend is under such a key.                               *)
C13_KeysCarryPrefix ==
    /\ \A k \in Keys : customize_key(k) = Namespaced(k)
    /\ DOMAIN storage \subseteq {Namespaced(k) : k \in Keys}

----------------------------------------------------------------------------
\* the backend holds an entry for k whose expiry deadline has passed
Expired(k) ==
    LET ck == customize_key(k)
    IN  /\ ck \in DOMAIN storage
        /\ expire_seconds > 0
        /\ ck \in DOMAIN expire_storage
        /\ expire_storage[ck] < now

(* C14: on the Dict, Directory, DbFilename and Redis adapters, repo.get(k) *)
(* of a key that is absent or expired ends normally with default(k) (None  *)
(* when no default was configured) and adds no key to the backend.         *)
C14_GetMissGivesDefault ==
    [][\A k \in Keys :
          (adapter # "Default" /\ res'.op = "get" /\ res'.key = k
             /\ (~Present(k) \/ Expired(k))) =>
             /\ res'.out = "ok"
             /\ res'.val = default_of(default, k)
             /\ ~has_default => res'.val = None
             /\ DOMAIN storage' \subseteq DOMAIN storage]_vars

\* a convenience get answered the user's default for an entry that had
\* been left alone for more than E seconds
C14_Witness ==
    /\ adapter # "Default"
    /\ res.op = "get"
    /\ ~res.hit
    /\ res.out = "ok"
    /\ res.val = UserDefault
    /\ expire_seconds > 0
    /\ Live(res.key)
    /\ Idle(res.key) > expire_seconds

----------------------------------------------------------------------------
\* the entries and expiry records a caller can observe are the same after
\* the step as before it (for Redis: those the service has not forgotten)
SameBackend ==
    IF adapter = "Redis"
    THEN /\ redis_st(storage', expire_storage') = redis_st(storage, expire_storage)
         /\ redis_ex(storage', expire_storage') = redis_ex(storage, expire_storage)
    ELSE storage' = storage /\ expire_storage' = expire_storage

\* repo.delete(k) of a key the backend does not hold returns normally and
\* changes nothing
DeleteAbsentIsNoOp(k) ==
    (res'.op = "delete" /\ res'.key = k /\ ~Present(k)) =>
        (res'.out = "ok" /\ SameBackend)

----------------------------------------------------------------------------
(* Calls of the decorated function with more positional arguments than its *)
(* signature takes.                                                        *)

\* what Python answers to func(*args) for such a call: TypeError, raised
\* while binding the arguments, before the body
after_bad_get(got, d, d_raised, cache_key) ==
    IF got.out # "ok"
    THEN Ended(got.out, None, FALSE, cache_key, got.st, got.ex, d_raised)
    ELSE IF got.val # None
    THEN Ended("ok", got.val, FALSE, cache_key, got.st, got.ex, d)
    ELSE Ended("TypeError", None, FALSE, cache_key, got.st, got.ex, d)

\* inner_func(*args) for such a call: key_from_function_call returns a key
\* (all_as_kwargs passes over the IndexError of in_args.pop), so the
\* "except IndexError" of inner_func is never entered and the lookup is made
BadCall(args, ignore_cache) ==
    /\ Len(args) > fn.co_argcount
    /\ \E k \in {key_from_function_call(fn, args, <<>>)} :
       \E r \in {after_bad_get(IF ignore_cache THEN no_lookup(storage, expire_storage)
                               ELSE Repo_get(storage, expire_storage, "none", k),
                               default, "none", k)} :
          /\ storage' = r.st
          /\ expire_storage' = r.ex
          /\ default' = r.d
          /\ call' = [NoCall EXCEPT !.op = "badcall", !.ignore = ignore_cache,
                                    !.key = r.key, !.out = r.out, !.val = r.val]
    /\ UNCHANGED <<config, now, res, entry, codec_vars, validate, shelf_vars>>

NextUsage ==
    \/ \E c \in CallTable[fn], ignore_cache \in BOOLEAN, body \in Results :
          Call(c, ignore_cache, body)
    \/ \E args \in CacheArgLists, ignore_cache \in BOOLEAN : BadCall(args, ignore_cache)

SpecUsage == InitShared /\ [][NextUsage]_vars

(* C16: a call with more positional arguments than the function takes ends *)
(* with a usage error (TypeError) raised by the key construction: no key   *)
(* is built, the repository is not consulted and the body is not executed. *)
C16_TooManyArgsRejected ==
    call.op = "badcall" =>
        /\ call.out = "TypeError"
        /\ call.key = <<>>
        /\ ~call.executed

----------------------------------------------------------------------------
(* function_call_from_key applied to the keys key_from_function_call       *)
(* builds.  A string is the sequence of its tokens, a separator being one  *)
(* token.                                                                  *)

\* s.split(sep)
RECURSIVE split(_, _)
split(s, sep) ==
    IF \A i \in 1..Len(s) : s[i] # sep THEN <<s>>
    ELSE LET i == CHOOSE j \in 1..Len(s) :
                     s[j] = sep /\ \A h \in 1..(j - 1) : s[h] # sep
         IN  <<SubSeq(s, 1, i - 1)>> \o split(SubSeq(s, i + 1, Len(s)), sep)

\* s.split('=', 1)
split_once(s) ==
    IF \A i \in 1..Len(s) : s[i] # "=" THEN <<s>>
    ELSE LET i == CHOOSE j \in 1..Len(s) :
                     s[j] = "=" /\ \A h \in 1..(j - 1) : s[h] # "="
         IN  <<SubSeq(s, 1, i - 1), SubSeq(s, i + 1, Len(s))>>

\* tuple(filter(bool, parts)): the non-empty strings, in order
RECURSIVE filter_bool(_)
filter_bool(parts) ==
    IF Len(parts) = 0 THEN <<>>
    ELSE IF Head(parts) = <<>> THEN filter_bool(Tail(parts))
    ELSE <<Head(parts)>> \o filter_bool(Tail(parts))

\* dict(pairs): a later pair replaces an earlier one with the same name
RECURSIVE dict_of(_, _)
dict_of(pairs, d) ==
    IF Len(pairs) = 0 THEN d
    ELSE dict_of(Tail(pairs), Put(d, Head(pairs)[1], Head(pairs)[2]))

Decoded(out, name, args, kwargs) ==
    [out |-> out, prefix |-> name, args |-> args, kwargs |-> kwargs]

function_call_from_key(key) ==
    LET halves == split(key, fun_sep)
    IN  IF Len(halves) # 2 THEN Decoded("ValueError", <<>>, <<>>, EmptyMap)
        ELSE LET strs == split(halves[2], type_sep)
             IN  IF Len(strs) # 2 THEN Decoded("ValueError", <<>>, <<>>, EmptyMap)
                 ELSE LET args == filter_bool(split(strs[1], param_sep))
                          kwargs_tuple == filter_bool(split(strs[2], param_sep))
                          pairs == [i \in 1..Len(kwargs_tuple) |->
                                        split_once(kwargs_tuple[i])]
                      IN  IF \E i \in 1..Len(pairs) : Len(pairs[i]) # 2
                          THEN Decoded("ValueError", <<>>, <<>>, EmptyMap)
                          ELSE Decoded("ok", halves[1], args, dict_of(pairs, EmptyMap))

\* ---- the functions and arguments tried: ints and strings
\* def p(a, /)   (no keyword segment)      def z()   (both segments empty)
RoundTripFunctions ==
    Functions \cup { Function("mod.p", 1, 1, 0, <<"a">>, {}),
                     Function("mod.z", 0, 0, 0, <<>>, {}) }
\* the int 1, the strings '' and 'x:::y'
RoundTripArgValues == {"i1", "", "x:::y"}
RoundTripArgLists == UNION {[1..n -> RoundTripArgValues] : n \in 0..MaxArgs}
RoundTripKwArgMaps(f) == UNION {[S -> RoundTripArgValues] : S \in SUBSET Params(f)}

InitRoundTrip ==
    /\ Construct("Dict", <<>>, 0, "", FALSE)
    /\ now = 0
    /\ res = [op |-> "init", key |-> <<>>, arg |-> None, out |-> "ok", val |-> None,
              hit |-> FALSE, seq |-> 0]
    /\ entry = [k \in Keys |-> NoEntry]
    /\ fn \in RoundTripFunctions
    /\ encoded = <<>>
    /\ NoCache
    /\ shelf = NoShelf

\* function_call_from_key(key_from_function_call(fn, *args, **kwargs))
RoundTrip(args, kwargs) ==
    /\ encoded = <<>>
    /\ ValidCall(fn, args, kwargs)
    /\ \E k \in {key_from_function_call(fn, args, kwargs)} :
          encoded' = <<[args |-> args, kwargs |-> kwargs, key |-> k,
                        parts |-> all_as_kwargs(fn, args, kwargs),
                        back |-> function_call_from_key(k)]>>
    /\ UNCHANGED <<config, default, storage, expire_storage, now, res, entry, fn, cache_vars, shelf_vars>>

NextRoundTrip ==
    \E args \in RoundTripArgLists, kwargs \in RoundTripKwArgMaps(fn) : RoundTrip(args, kwargs)

SpecRoundTrip == InitRoundTrip /\ [][NextRoundTrip]_vars

\* str() of the positional arguments of the key, in order
StayedPositional(e) == [i \in 1..Len(e.parts.in_args) |-> str_of(e.parts.in_args[i])]
\* keyword name -> str() of its value, for the keyword arguments of the key
AsKeywords(e) ==
    [n \in {<<e.parts.in_kwargs[i][1]>> : i \in 1..Len(e.parts.in_kwargs)} |->
        LET i == CHOOSE j \in 1..Len(e.parts.in_kwargs) : <<e.parts.in_kwargs[j][1]>> = n
        IN  str_of(e.parts.in_kwargs[i][2])]
(* C17: for every function and every call, function_call_from_key of the   *)
(* key of the call returns the qualified name, the tuple of str() of the   *)
(* arguments that stayed positional and the map from each keyword name to  *)
(* str() of its value; empty segments give the empty tuple or map.         *)
C17_DecodeInvertsEncode ==
    \A i \in 1..Len(encoded) :
        encoded[i].back =
            Decoded("ok", fn.qualname, StayedPositional(encoded[i]), AsKeywords(encoded[i]))

----------------------------------------------------------------------------
(* An encrypted repository whose cipher the caller replaces:               *)
(* repo.cipher = repo.build_cipher(passphrase)                             *)

\* 'P1' (the passphrase of the constructor), b'P1' and 'P2'
CipherPassphrases == {"P1", "b'P1'", "P2"}

InitCipher == Init /\ is_encrypted /\ expire_seconds = 0

Rebuild(passphrase) ==
    /\ cipher' = build_cipher(passphrase)
    /\ res' = [op |-> "build_cipher", key |-> <<>>, arg |-> passphrase, out |-> "ok",
               val |-> None, hit |-> FALSE, seq |-> 1 - res.seq]
    /\ UNCHANGED <<adapter, prefix_opt, prefix, expire_seconds, is_encrypted, has_default,
                   default, storage, expire_storage, now, entry, codec_vars, cache_vars, shelf_vars>>

NextCipher ==
    \/ \E k \in Keys : GetItem(k)
    \/ \E k \in Keys : Get(k)
    \/ \E k \in Keys, v \in Values : SetItem(k, v)
    \/ \E k \in Keys, v \in Values : Set(k, v)
    \/ \E k \in Keys : DelItem(k)
    \/ \E k \in Keys : Delete(k)
    \/ \E passphrase \in CipherPassphrases : Rebuild(passphrase)

SpecCipher == InitCipher /\ [][NextCipher]_vars

\* the entry the backend holds for k was encrypted by build_cipher(passphrase)
WrittenUnder(k, passphrase) ==
    /\ Present(k)
    /\ storage[customize_key(k)].enc = build_cipher(passphrase)

(* C18: on an encrypted repository, a read (repo[k] or repo.get(k)) of an  *)
(* entry written under passphrase P1 fails with InvalidToken, returning    *)
(* neither a value nor the default, when the cipher was rebuilt from a     *)
(* passphrase P2 different from P1, and returns the value that was set     *)
(* when the cipher was rebuilt from P1.                                    *)
C18_OtherPassphraseFails ==
    [][\A k \in Keys : \A P1, P2 \in CipherPassphrases :
          (is_encrypted /\ IsGetOf(res', k) /\ Live(k) /\ WrittenUnder(k, P1)
             /\ P2 # P1) =>
             /\ cipher = build_cipher(P2) => res'.out = "InvalidToken"
             /\ cipher = build_cipher(P1) =>
                   (res'.out = "ok" /\ res'.val = entry[k].val)]_vars

----------------------------------------------------------------------------
(* C19: with expire_seconds = 0 (every DefaultRepository included) no      *)
(* expiry is ever recorded, and a get (repo[k] or repo.get(k)) of a key    *)
(* that was set and not deleted since succeeds with a stored value,        *)
(* whatever the clock and the other operations did in between.             *)
C19_ZeroNeverExpires ==
    [][expire_seconds = 0 =>
          /\ expire_storage' = EmptyMap
          /\ \A k \in Keys :
                (Live(k) /\ IsGetOf(res', k)) => (res'.out = "ok" /\ res'.hit)]_vars

\* a get found the entry of a repository without TTL MaxExpire + 1 seconds
\* or more after it was set
C19_Witness ==
    /\ expire_seconds = 0
    /\ res.op \in {"getitem", "get"}
    /\ res.hit
    /\ Live(res.key)
    /\ now - entry[res.key].since > MaxExpire

----------------------------------------------------------------------------
(* iter_matching: the whole iteration, list(repo.iter_matching(pattern)).  *)
(* A pattern is a literal key or '.*'.                                     *)

Patterns == {<<"a">>, <<"b">>, <<".*">>}

IsPrefixOf(p, key) == Len(p) <= Len(key) /\ SubSeq(key, 1, Len(p)) = p

\* re.match(pattern, key): the pattern has to match at the start of key
re_match(pattern, key) == pattern = <<".*">> \/ IsPrefixOf(pattern, key)

\* the MATCH of the service's SCAN: a glob, where '.' and '*' of '.*' stand
\* for a dot followed by anything
glob_match(pattern, key) ==
    IF pattern = <<".*">> THEN Len(key) > 0 /\ key[1] = "." ELSE pattern = key

\* KeyValueRepository.iter_matching (Directory, DbFilename and Default inherit it)
KeyValueRepository_iter_matching(st, ex, pattern) ==
    [out |-> "NotImplementedError", items |-> {}]

\* yield key, val  for the items of self.storage
Dict_iter_matching(st, ex, pattern) ==
    [out |-> "ok", items |-> {<<key, st[key]>> : key \in {x \in DOMAIN st : re_match(pattern, x)}}]

\* yield from self.storage.scan_iter(pattern): the keys alone
Redis_iter_matching(st, ex, pattern) ==
    [out |-> "ok",
     items |-> {<<key>> : key \in {x \in redis_live_keys(st, ex) : glob_match(pattern, x)}}]

iter_matching(st, ex, pattern) ==
    CASE adapter = "Dict" -> Dict_iter_matching(st, ex, pattern)
      [] adapter = "Redis" -> Redis_iter_matching(st, ex, pattern)
      [] OTHER -> KeyValueRepository_iter_matching(st, ex, pattern)

IterMatching(pattern) ==
    /\ \E r \in {iter_matching(storage, expire_storage, pattern)} :
          res' = [op |-> "iter_matching", key |-> pattern, arg |-> None, out |-> r.out,
                  val |-> None, hit |-> FALSE, seq |-> 1 - res.seq, items |-> r.items]
    /\ UNCHANGED <<config, default, storage, expire_storage, now, entry, codec_vars, cache_vars, shelf_vars>>

InitIter == Init /\ expire_seconds = 0

NextIter ==
    \/ \E k \in Keys : GetItem(k)
    \/ \E k \in Keys : Get(k)
    \/ \E k \in Keys, v \in Values : SetItem(k, v)
    \/ \E k \in Keys, v \in Values : Set(k, v)
    \/ \E k \in Keys : DelItem(k)
    \/ \E k \in Keys : Delete(k)
    \/ \E pattern \in Patterns : IterMatching(pattern)

SpecIter == InitIter /\ [][NextIter]_vars

\* the adapters that define an iter_matching of their own
Scanning == {"Dict", "Redis"}

\* what the raw key k matches, by the adapter's way of matching
MatchesRaw(pattern, k) ==
    IF adapter = "Redis" THEN glob_match(pattern, k) ELSE re_match(pattern, k)

(* C20: on an adapter that scans, iter_matching(pattern) yields exactly    *)
(* the pairs (k, v) with k the raw key of a stored entry that matches      *)
(* pattern and v the decrypted, deserialized value get(k) returns; on the  *)
(* other adapters it fails with NotImplementedError.                       *)
C20_YieldsRawKeysAndValues ==
    res.op = "iter_matching" =>
        IF adapter \in Scanning
        THEN /\ res.out = "ok"
             /\ res.items =
                  {<<k, Obj(Repo_get(storage, expire_storage, default, k).val)>> :
                      k \in {x \in Keys : Present(x) /\ MatchesRaw(res.key, x)}}
        ELSE res.out = "NotImplementedError"

----------------------------------------------------------------------------
(* The four storage adapters side by side: repositories constructed with   *)
(* the same options, one per adapter, to which a caller applies the same   *)
(* operations in the same order.  storage and expire_storage hold one      *)
(* table per adapter; adapter is the repository whose turn it is, and res  *)
(* gathers how the operation ended on each repository reached so far.      *)

LockAdapters == <<"Dict", "DbFilename", "Directory", "Redis">>
LockOps == {"getitem", "get", "setitem", "set", "delitem", "delete"}

\* one operation of the repository's interface
RunOp(op, st, ex, d, k, v) ==
    CASE op = "getitem" -> wrapped_getitem(st, ex, d, k)
      [] op = "get" -> Repo_get(st, ex, d, k)
      [] op = "setitem" -> wrapped_setitem(st, ex, d, k, v)
      [] op = "set" -> Repo_set(st, ex, d, k, v)
      [] op = "delitem" -> wrapped_delitem(st, ex, k)
      [] op = "delete" -> Repo_delete(st, ex, k)

InitLock ==
    /\ \E p \in Prefixes, e \in ExpireChoices, dflt \in BOOLEAN :
          /\ adapter = LockAdapters[1]
          /\ prefix_opt = p
          /\ prefix = init_prefix(LockAdapters[1], p)
          /\ expire_seconds = e
          /\ is_encrypted = FALSE
          /\ cipher = build_cipher("")
          /\ has_default = dflt
          /\ default = IF dflt THEN "user" ELSE "none"
    /\ storage = [i \in 1..Len(LockAdapters) |-> EmptyMap]
    /\ expire_storage = [i \in 1..Len(LockAdapters) |-> EmptyMap]
    /\ now = 0
    /\ res = [op |-> "init", key |-> <<>>, arg |-> None, at |-> 0, outs |-> <<>>]
    /\ entry = [k \in Keys |-> NoEntry]
    /\ fn = NoFunction
    /\ encoded = <<>>
    /\ NoCache
    /\ shelf = NoShelf

\* the repository of the i-th adapter ran the operation and ended as r
Ran(i, op, k, v, r) ==
    /\ storage' = [storage EXCEPT ![i] = r.st]
    /\ expire_storage' = [expire_storage EXCEPT ![i] = r.ex]
    /\ res' = [op |-> op, key |-> k, arg |-> v, at |-> i % Len(LockAdapters),
               outs |-> Append(IF i = 1 THEN <<>> ELSE res.outs, <<r.out, r.val>>)]
    /\ adapter' = LockAdapters[(i % Len(LockAdapters)) + 1]
    /\ prefix' = init_prefix(adapter', prefix_opt)
    /\ UNCHANGED <<prefix_opt, expire_seconds, is_encrypted, cipher, has_default,
                   default, now, entry, codec_vars, cache_vars, shelf_vars>>

\* the caller's next operation, on the first repository
Begin(op, k, v) ==
    /\ res.at = 0
    /\ Ran(1, op, k, v, RunOp(op, storage[1], expire_storage[1], default, k, v))

\* the same operation on the next repository
Continue ==
    /\ res.at > 0
    /\ Ran(res.at + 1, res.op, res.key, res.arg,
           RunOp(res.op, storage[res.at + 1], expire_storage[res.at + 1], default,
                 res.key, res.arg))

TickLock ==
    /\ res.at = 0
    /\ now < MaxTime
    /\ now' = now + 1
    /\ UNCHANGED <<config, default, storage, expire_storage, res, entry, codec_vars, cache_vars, shelf_vars>>

NextLock ==
    \/ \E op \in LockOps, k \in Keys, v \in Values : Begin(op, k, v)
    \/ Continue
    \/ TickLock

SpecLock == InitLock /\ [][NextLock]_vars

(* C21: for every sequence of primitive and convenience get, set and       *)
(* delete operations and clock advances, the Dict, DbFilename, Directory   *)
(* and Redis repositories constructed with the same options end every      *)
(* operation the same way: same returned value, or same error.             *)
C21_AdaptersAgree ==
    \A i, j \in 1..Len(res.outs) : res.outs[i] = res.outs[j]

----------------------------------------------------------------------------
(* C22: unserialize_val(serialize_val(v)) = v for every value the          *)
(* serializer accepts, on every adapter: a read that finds the entry of a  *)
(* key returns the very value the last set of that key stored.             *)
C22_ReadBackIsStored ==
    (res.op \in {"getitem", "get"} /\ res.hit /\ Live(res.key)) =>
        res.val = entry[res.key].val

----------------------------------------------------------------------------
(* encript_shelve.EncryptShelf: a shelf whose values are stored encrypted  *)
(* with an AES cipher built from self.seed each time it is used.           *)

ShelfKeys == {"a", "b"}
\* the seeds given to the constructor and to update_aes (whose default is None)
ShelfSeeds == {"P1", "P2", None}
\* keys random.randbytes can give after random.seed(None), which seeds the
\* generator from the system's entropy
RandomKeys == {"R1", "R2"}

\* aes_cipher(seed): the keys the cipher can get
aes_cipher(s) == IF s = None THEN RandomKeys ELSE {seed(s)}

\* EncryptShelf.__getitem__, with a cipher of key ck; decrypting with
\* another key than the one that encrypted gives bytes unpad refuses
Shelf_getitem(sh, key, ck) ==
    IF key \in DOMAIN sh.cache THEN [out |-> "ok", val |-> sh.cache[key], sh |-> sh]
    ELSE IF key \notin DOMAIN sh.dict THEN [out |-> "KeyError", val |-> None, sh |-> sh]
    ELSE IF sh.dict[key].enc # ck THEN [out |-> "ValueError", val |-> None, sh |-> sh]
    ELSE [out |-> "ok", val |-> sh.dict[key].val,
          sh |-> IF sh.writeback
                 THEN [sh EXCEPT !.cache = Put(sh.cache, key, sh.dict[key].val)]
                 ELSE sh]

\* EncryptShelf.__setitem__, with a cipher of key ck
Shelf_setitem(sh, key, value, ck) ==
    [sh EXCEPT !.cache = IF sh.writeback THEN Put(sh.cache, key, value) ELSE sh.cache,
               !.dict = Put(sh.dict, key, Bytes("pickle", value, ck))]

\* the loop of update_aes over the keys todo; kr[key] and kw[key] are the
\* keys of the ciphers built to read and to write key
RECURSIVE update_aes_loop(_, _, _, _, _, _)
update_aes_loop(sh, old_seed, new_seed, todo, kr, kw) ==
    IF todo = {} THEN [out |-> "ok", sh |-> [sh EXCEPT !.seed = new_seed]]
    ELSE LET key == CHOOSE k \in todo : TRUE
             got == Shelf_getitem(sh, key, kr[key])
         IN  IF got.out # "ok" THEN [out |-> got.out, sh |-> got.sh]
             ELSE update_aes_loop(
                     [Shelf_setitem([got.sh EXCEPT !.seed = new_seed], key, got.val, kw[key])
                        EXCEPT !.seed = old_seed],
                     old_seed, new_seed, todo \ {key}, kr, kw)

update_aes(sh, new_seed, kr, kw) ==
    IF new_seed = sh.seed THEN [out |-> "ok", sh |-> sh]
    ELSE update_aes_loop(sh, sh.seed, new_seed, DOMAIN sh.dict, kr, kw)

InitShelf ==
    /\ Construct("Dict", <<>>, 0, "", FALSE)
    /\ now = 0
    /\ res = [op |-> "init", key |-> "", arg |-> None, out |-> "ok", val |-> None]
    /\ entry = [k \in Keys |-> NoEntry]
    /\ fn = NoFunction
    /\ encoded = <<>>
    /\ NoCache
    /\ \E s \in ShelfSeeds, wb \in BOOLEAN :
          shelf = [seed |-> s, dict |-> EmptyMap, cache |-> EmptyMap, writeback |-> wb]

ShelfFrame ==
    UNCHANGED <<config, default, storage, expire_storage, now, entry, codec_vars, cache_vars>>

\* shelf[key] = value
ShelfSet(key, value) ==
    /\ \E ck \in aes_cipher(shelf.seed) : shelf' = Shelf_setitem(shelf, key, value, ck)
    /\ res' = [op |-> "setitem", key |-> key, arg |-> value, out |-> "ok", val |-> None]
    /\ ShelfFrame

\* shelf[key]
ShelfGet(key) ==
    /\ \E ck \in aes_cipher(shelf.seed) :
       \E r \in {Shelf_getitem(shelf, key, ck)} :
          /\ shelf' = r.sh
          /\ res' = [op |-> "getitem", key |-> key, arg |-> None, out |-> r.out, val |-> r.val]
    /\ ShelfFrame

\* shelf.update_aes(new_seed)
UpdateAes(new_seed) ==
    /\ \E kr \in [DOMAIN shelf.dict -> aes_cipher(shelf.seed)],
          kw \in [DOMAIN shelf.dict -> aes_cipher(new_seed)] :
       \E r \in {update_aes(shelf, new_seed, kr, kw)} :
          /\ shelf' = r.sh
          /\ res' = [op |-> "update_aes", key |-> "", arg |-> new_seed, out |-> r.out,
                     val |-> None]
    /\ ShelfFrame

NextShelf ==
    \/ \E key \in ShelfKeys, value \in Values : ShelfSet(key, value)
    \/ \E key \in ShelfKeys : ShelfGet(key)
    \/ \E new_seed \in ShelfSeeds : UpdateAes(new_seed)

SpecShelf == InitShelf /\ [][NextShelf]_vars

\* every cipher built from the shelf's seed reads key as value
ReadsAs(sh, key, value) ==
    \A ck \in aes_cipher(sh.seed) :
        Shelf_getitem(sh, key, ck).out = "ok" /\ Shelf_getitem(sh, key, ck).val = value

(* C23: update_aes(new_seed) changes nothing when new_seed is the shelf's  *)
(* seed; otherwise, when it completes, the shelf's seed is new_seed, the   *)
(* shelf has the same keys, and every key read under new_seed gives the    *)
(* value it had before the call.                                           *)
C23_UpdateAesKeepsValues ==
    [][res'.op = "update_aes" =>
          IF res'.arg = shelf.seed THEN shelf' = shelf
          ELSE res'.out = "ok" =>
                  /\ shelf'.seed = res'.arg
                  /\ DOMAIN shelf'.dict = DOMAIN shelf.dict
                  /\ \A key \in DOMAIN shelf.dict :
                        ReadsAs(shelf', key, shelf.dict[key].val)]_vars

----------------------------------------------------------------------------
(* C24: on every adapter and for every key customization, a get (repo[k]   *)
(* or repo.get(k)) that finds the entry of k expired purges it: after the  *)
(* get the backend holds no entry and no expiry record for k, and a        *)
(* primitive set repo[k] = v succeeds.                                     *)
C24_ExpiredGetPurges ==
    [][\A k \in Keys :
          (IsGetOf(res', k) /\ Expired(k)) =>
             /\ ~Present(k)'
             /\ customize_key(k) \notin DOMAIN expire_storage'
             /\ \A v \in Values :
                   wrapped_setitem(storage, expire_storage, default, k, v)'.out = "ok"]_vars

----------------------------------------------------------------------------
(* Two callers of repo.set(k, v) on one DictRepository.  set is            *)
(* "self.delete(key); self[key] = value": each caller's delete and insert  *)
(* are steps of their own, and the other caller may run between them.      *)

Callers == {1, 2}

InitRace ==
    /\ \E e \in ExpireChoices, pass \in Passphrases, dflt \in BOOLEAN :
          Construct("Dict", <<>>, e, pass, dflt)
    /\ now = 0
    /\ res = [op |-> "init", key |-> <<>>, by |-> 0,
              pc |-> [c \in Callers |-> "idle"],
              arg |-> [c \in Callers |-> None],
              out |-> [c \in Callers |-> "ok"]]
    /\ entry = [k \in Keys |-> NoEntry]
    /\ fn = NoFunction
    /\ encoded = <<>>
    /\ NoCache
    /\ shelf = NoShelf

RaceFrame == UNCHANGED <<config, default, now, entry, codec_vars, cache_vars, shelf_vars>>

\* caller c enters set(k, v) and runs self.delete(key)
SetDelete(c, k, v) ==
    /\ res.pc[c] = "idle"
    /\ \A o \in Callers : res.pc[o] = "deleted" => res.key = k
    /\ \E r \in {Repo_delete(storage, expire_storage, k)} :
          /\ storage' = r.st
          /\ expire_storage' = r.ex
    /\ res' = [res EXCEPT !.op = "delete", !.key = k, !.by = c,
                          !.pc[c] = "deleted", !.arg[c] = v, !.out[c] = "ok"]
    /\ RaceFrame

\* caller c runs self[key] = value and leaves set
SetInsert(c) ==
    /\ res.pc[c] = "deleted"
    /\ \E r \in {wrapped_setitem(storage, expire_storage, default, res.key, res.arg[c])} :
          /\ storage' = r.st
          /\ expire_storage' = r.ex
          /\ res' = [res EXCEPT !.op = "insert", !.by = c, !.pc[c] = "idle",
                                !.out[c] = r.out]
    /\ RaceFrame

NextRace ==
    \/ \E c \in Callers, k \in Keys, v \in Values : SetDelete(c, k, v)
    \/ \E c \in Callers : SetInsert(c)

SpecRace == InitRace /\ [][NextRace]_vars

(* C25: set is not atomic.  The insert step of a caller fails with         *)
(* KeyError (AlreadyExists) exactly when the backend holds the key at      *)
(* that moment, which is when the other caller inserted it after this      *)
(* caller's delete step; such an interleaving exists.                      *)
C25_InsertFailsIffPresent ==
    [][\A c \in Callers :
          (res'.op = "insert" /\ res'.by = c) =>
             (res'.out[c] = "KeyError") = Present(res.key)]_vars

\* both callers deleted, then both inserted: the first insert succeeded and
\* the second caller's set ended with KeyError
C25_Witness ==
    /\ res.op = "insert"
    /\ res.out[res.by] = "KeyError"
    /\ \E o \in Callers \ {res.by} : res.pc[o] = "idle" /\ res.out[o] = "ok"
    /\ Present(res.key)

----------------------------------------------------------------------------
(* C26: on a DefaultRepository a key is defined by its first retrieval:    *)
(* a get (repo[k] or repo.get(k)) that follows a get of the same key, with *)
(* no delete in between, finds the key stored, so default(k) is not        *)
(* computed again, and returns the value the earlier get returned; with a  *)
(* prefix as well as without.                                              *)
C26_DefinedOnFirstGet ==
    [][\A k \in Keys :
          (adapter = "Default" /\ IsGetOf(res, k) /\ IsGetOf(res', k)) =>
             /\ Present(k)
             /\ res'.out = "ok"
             /\ res.out = "ok"
             /\ res'.val = res.val]_vars

----------------------------------------------------------------------------
(* C27: key_from_function_call is injective per function: two valid calls  *)
(* of one function that give some parameter different values (a defaulted *)
(* parameter left out counts with its default) never get the same key.     *)
C27_DifferentBindingDifferentKey ==
    \A i, j \in 1..Len(encoded) :
        Bind(fn, encoded[i].args, encoded[i].kwargs)
            # Bind(fn, encoded[j].args, encoded[j].kwargs)
        => encoded[i].key # encoded[j].key

\* C28: on a Dict, Directory or DbFilename repository every key that has a
\* record in the expiry table also has an entry in the storage
C28_ExpiryRecordHasEntry ==
    adapter \in {"Dict", "Directory", "DbFilename"}
    => DOMAIN expire_storage \subseteq DOMAIN storage

\* C29: a call of the decorated function, however it ends, leaves the
\* repository's default callable as it was before the call
C29_CallKeepsDefault ==
    [][call'.op = "call" => default' = default]_vars

\* C30: after a call has executed the body and the validator has accepted
\* the result (None included), every equivalent call made next with
\* ignore_cache false returns that result without executing the body
C30_ValidatedResultServed ==
    (call.op = "call" /\ call.executed /\ call.out = "ok"
        /\ Accepts(validate, call.val)) =>
        \A k \in KeysOf(fn, call.bound), body \in Results :
           Served(inner_func(storage, expire_storage, default, k, FALSE, body),
                  call.val)

====
